---- MODULE Spec2Model ----
(***************************************************************************)
(* Model of src/src/cidr/ipv6_cidr.rs (cidr-utils): the IPv6 CIDR value     *)
(* type, its mask arithmetic, ordering, containment and address iterator.   *)
(*                                                                          *)
(* A u128 is modelled at its full width as the set of its set bit           *)
(* positions (bit k has weight 2^k), so that 128-bit wrap-around is exact.  *)
(* transmute between u128 and [u8; 16] / [u16; 8] is modelled by the memory *)
(* layout of a little-endian target (x86-64, aarch64): byte i of the array  *)
(* holds bits 8i..8i+7 of the integer.                                      *)
(* Arithmetic overflow is build dependent: with overflow checks (debug      *)
(* profile) it panics, without (release profile) it wraps.  The profile is  *)
(* the variable overflow_checks, chosen in Init.                            *)
(***************************************************************************)
EXTENDS Integers, FiniteSets, Sequences, TLC

\* ------------------------------------------------------------------ bounds
\* number of next() calls driven on one iterator
MaxNextCalls == 4

\* ------------------------------------------------------- program constants
U128_BITS == 128
U8_MAX == 255

\* ------------------------------------------------------------ u128 values
BitIdx == 0..(U128_BITS - 1)
ZeroU128 == {}
MaxU128 == BitIdx

MinOf(S) == CHOOSE k \in S : \A j \in S : k <= j

BitAnd(x, y) == x \cap y
BitOr(x, y) == x \cup y
BitNot(x) == BitIdx \ x

\* x + 1 and x - 1 modulo 2^128, with the carry / borrow out
Succ(x) ==
    IF x = MaxU128 THEN [v |-> ZeroU128, carry |-> TRUE]
    ELSE LET k == MinOf(BitIdx \ x)
         IN [v |-> (x \ (0..(k - 1))) \cup {k}, carry |-> FALSE]

Pred(x) ==
    IF x = ZeroU128 THEN [v |-> MaxU128, carry |-> TRUE]
    ELSE LET k == MinOf(x)
         IN [v |-> (x \ {k}) \cup (0..(k - 1)), carry |-> FALSE]

\* x + y modulo 2^128 with the carry out: the carry into bit k is generated
\* at a lower bit j set in both and propagated by every bit between
CarryInto(x, y, k) ==
    \E j \in {g \in x \cap y : g < k} :
        \A i \in (j + 1)..(k - 1) : i \in x \/ i \in y

Add(x, y) ==
    [v |-> {k \in BitIdx : ((k \in x) # (k \in y)) # CarryInto(x, y, k)},
     carry |-> CarryInto(x, y, U128_BITS)]

\* 2u128.pow(e): the value modulo 2^128 and whether it overflowed
Pow2(e) ==
    IF e < U128_BITS THEN [v |-> {e}, carry |-> FALSE]
    ELSE [v |-> ZeroU128, carry |-> TRUE]

\* -------------------------------------------------- representation layer
ByteIdx == 0..15
GroupIdx == 0..7

\* transmute::<u128, [u8; 16]> on a little-endian target
u128_to_u8_array(uint128) ==
    [i \in ByteIdx |->
        LET B(j) == IF (8 * i + j) \in uint128 THEN 2 ^ j ELSE 0
        IN B(0) + B(1) + B(2) + B(3) + B(4) + B(5) + B(6) + B(7)]

\* transmute::<[u8; 16], u128> on a little-endian target
u8_array_to_u128(uint8_array) ==
    {k \in BitIdx : (uint8_array[k \div 8] \div (2 ^ (k % 8))) % 2 = 1}

\* [a[1], a[0], a[3], a[2], ...]
SwapPairs(a) == [i \in ByteIdx |-> IF i % 2 = 0 THEN a[i + 1] ELSE a[i - 1]]

\* [a[15], a[14], ..., a[0]]
ReverseBytes(a) == [i \in ByteIdx |-> a[15 - i]]

u128_to_u16_array(uint128) ==
    LET a == u128_to_u8_array(uint128)
        s == SwapPairs(a)
    IN [g \in GroupIdx |-> s[2 * g] + 256 * s[2 * g + 1]]

u16_array_to_u128(uint16_array) ==
    LET a == [i \in ByteIdx |->
                 IF i % 2 = 0 THEN uint16_array[i \div 2] % 256
                 ELSE uint16_array[i \div 2] \div 256]
    IN u8_array_to_u128(SwapPairs(a))

\* ------------------------------------------------------ bit-mask arithmetic
get_mask(bits) ==
    LET l == bits \div 8
        d == bits % 8
        a == [i \in ByteIdx |->
                 IF i < l THEN U8_MAX
                 ELSE IF i = l /\ d > 0 THEN (U8_MAX * (2 ^ (8 - d))) % 256
                 ELSE 0]
    IN u8_array_to_u128(a)

Some(x) == [some |-> TRUE, v |-> x]
None == [some |-> FALSE, v |-> 0]

\* (mask << index) >> 127 for the digit-th bit in address order: the shift
\* left by index drops the bits above 127 - index, the shift right by 127
\* drops those below, leaving bit 127 - index of mask as the value 0 or 1
MaskDigit(mask, digit) ==
    LET base == (15 - digit \div 8) * 8
        offset == digit % 8
        index == base + offset
    IN IF (127 - index) \in mask THEN {0} ELSE ZeroU128

\* first loop of mask_to_bits: it stops at the first digit whose bit is 0
\* and leaves (digit, b); with no such digit it leaves (128, 128)
FirstLoop(mask) ==
    LET zeros == {d \in 0..(U128_BITS - 1) : MaskDigit(mask, d) = ZeroU128}
    IN IF zeros = {} THEN [digit |-> U128_BITS, b |-> U128_BITS]
       ELSE [digit |-> MinOf(zeros) + 1, b |-> MinOf(zeros)]

\* second loop of mask_to_bits: TRUE iff it returns None
SecondLoop(mask, digit) ==
    \E d \in digit..(U128_BITS - 1) : MaskDigit(mask, d) = {0}

mask_to_bits_bad(mask) == Some(FirstLoop(mask).b)

mask_to_bits(mask) ==
    LET f == FirstLoop(mask)
    IN IF SecondLoop(mask, f.digit) THEN None ELSE Some(f.b)

\* ------------------------------------------------------------ Ipv6Able
\* get_u128 of a [u16; 8] in network group order
get_u128(groups) == u16_array_to_u128(groups)

\* ------------------------------------------------------------- Ipv6Cidr
\* a value that may be a panic instead
Val(x) == [panic |-> FALSE, v |-> x]
\* d: a value of the type the call would have returned
Panic(d) == [panic |-> TRUE, v |-> d]

Ok(p, m) == [tag |-> "Ok", err |-> "", prefix |-> p, mask |-> m]
Err(e) == [tag |-> "Err", err |-> e, prefix |-> {}, mask |-> {}]
NoCidr == [tag |-> "None", err |-> "", prefix |-> {}, mask |-> {}]

from_prefix_and_bits_bad(prefix, bits) ==
    IF bits >= U128_BITS THEN Err("IncorrectBitsRange")
    ELSE LET mask == get_mask(bits)
         IN Ok(BitAnd(prefix, mask), mask)

from_prefix_and_bits(prefix, bits) ==
    IF bits > U128_BITS THEN Err("IncorrectBitsRange")
    ELSE LET mask == get_mask(bits)
         IN Ok(BitAnd(prefix, mask), mask)

from_prefix_and_mask_bad(prefix, mask) ==
    IF mask_to_bits(mask).some
    THEN Ok(prefix, mask)
    ELSE Err("IncorrectMask")

from_prefix_and_mask(prefix, mask) ==
    IF mask_to_bits(mask).some
    THEN Ok(BitAnd(prefix, mask), mask)
    ELSE Err("IncorrectMask")

get_prefix(c) == c.prefix
get_prefix_as_u8_array(c) == u128_to_u8_array(get_prefix(c))
get_prefix_as_u16_array(c) == u128_to_u16_array(get_prefix(c))

\* mask_to_bits(self.mask).unwrap()
get_bits(c) ==
    LET o == mask_to_bits(c.mask)
    IN IF o.some THEN Val(o.v) ELSE Panic(0)

\* Ipv6Cidr::get_mask: get_mask(self.get_bits())
cidr_get_mask(c) ==
    LET b == get_bits(c)
    IN IF b.panic THEN Panic(ZeroU128) ELSE Val(get_mask(b.v))

first(c) == get_prefix(c)
first_as_u16_array(c) == get_prefix_as_u16_array(c)

last_bad(c) ==
    LET m == cidr_get_mask(c)
    IN IF m.panic THEN Panic(ZeroU128) ELSE Val(BitNot(m.v))

\* Ipv6Cidr::last: !self.get_mask() | self.get_prefix()
last(c) ==
    LET m == cidr_get_mask(c)
    IN IF m.panic THEN Panic(ZeroU128) ELSE Val(BitOr(BitNot(m.v), get_prefix(c)))

NoBytes == [i \in ByteIdx |-> 0]

last_as_u8_array(c) ==
    LET l == last(c)
    IN IF l.panic THEN Panic(NoBytes) ELSE Val(u128_to_u8_array(l.v))

\* a (u128, bool) pair
Pair(v, o) == [v |-> v, o |-> o]

\* Ipv6Cidr::size; oc = the build checks arithmetic overflow
size(c, oc) ==
    LET bits == get_bits(c)
    IN IF bits.panic THEN Panic(Pair(ZeroU128, FALSE))
       ELSE IF bits.v = U128_BITS THEN Val(Pair(ZeroU128, TRUE))
       ELSE LET p == Pow2(U128_BITS - bits.v)
            IN IF p.carry /\ oc THEN Panic(Pair(ZeroU128, FALSE))
               ELSE Val(Pair(p.v, FALSE))

contains(c, ipv6) ==
    LET m == cidr_get_mask(c)
    IN IF m.panic THEN Panic(FALSE) ELSE Val(BitAnd(ipv6, m.v) = c.prefix)

\* the loop `for i in 0..16` of Ord::cmp over the two [u16; 8]
RECURSIVE CmpLoop(_, _, _)
CmpLoop(a, b, i) ==
    IF i = 16 THEN "Fallthrough"
    ELSE IF i \notin DOMAIN a \/ i \notin DOMAIN b THEN "Panic"
    ELSE IF a[i] > b[i] THEN "Greater"
    ELSE IF a[i] < b[i] THEN "Less"
    ELSE CmpLoop(a, b, i + 1)

cmp(self, other) ==
    LET a == first_as_u16_array(self)
        b == first_as_u16_array(other)
        r == CmpLoop(a, b, 0)
    IN IF r # "Fallthrough" THEN r
       ELSE LET x == get_bits(self)
                y == get_bits(other)
            IN IF x.panic \/ y.panic THEN "Panic"
               ELSE IF x.v < y.v THEN "Less"
               ELSE IF x.v > y.v THEN "Greater"
               ELSE "Equal"

\* ------------------------------------------------ Ipv6CidrU8ArrayIterator
NoIter == [live |-> FALSE, rev_from |-> {}, next |-> Pair({}, FALSE),
           size |-> Pair({}, FALSE)]

iter_as_u8_array(c, oc) ==
    LET a == get_prefix_as_u8_array(c)
        rev_from == u8_array_to_u128(ReverseBytes(a))
        s == size(c, oc)
    IN IF s.panic THEN Panic(NoIter)
       ELSE Val([live |-> TRUE, rev_from |-> rev_from,
                 next |-> Pair(ZeroU128, FALSE), size |-> s.v])

\* outcome of a call on the iterator: the Option returned (or a panic), the
\* iterator after the call, whether the addition origin + cursor overflowed,
\* whether the cursor crossed 2^128
Outcome(tag, bytes, it, ovf, crossed) ==
    [tag |-> tag, bytes |-> bytes, it |-> it, add_overflow |-> ovf,
     crossed |-> crossed]

iter_next(it, oc) ==
    IF it.next = it.size THEN Outcome("None", NoBytes, it, FALSE, FALSE)
    ELSE LET p == Add(it.rev_from, it.next.v)
         IN IF p.carry /\ oc THEN Outcome("Panic", NoBytes, it, TRUE, FALSE)
            ELSE LET wrap == (it.next.v = MaxU128)
                     nx == IF wrap THEN Pair(ZeroU128, TRUE)
                           ELSE Pair(Succ(it.next.v).v, it.next.o)
                     a == u128_to_u8_array(p.v)
                 IN Outcome("Some", ReverseBytes(a),
                            [it EXCEPT !.next = nx], p.carry, wrap)

\* Iterator::last(mut self): self.next = (self.size.0 - 1, self.size.1)
iter_last(it, oc) ==
    LET d == Pred(it.size.v)
    IN IF d.carry /\ oc THEN Outcome("Panic", NoBytes, it, FALSE, FALSE)
       ELSE iter_next([it EXCEPT !.next = Pair(d.v, it.size.o)], oc)

\* ------------------------------------------------------------------ inputs
Groups(a, b, c, d, e, f, g, h) ==
    [i \in GroupIdx |-> CASE i = 0 -> a [] i = 1 -> b [] i = 2 -> c [] i = 3 -> d
                          [] i = 4 -> e [] i = 5 -> f [] i = 6 -> g [] OTHER -> h]

\* ::1, 2001:db8::1, ffff:ffff:ffff:ffff:ffff:ffff:ffff:ffff as [u16; 8]
AddrInputs ==
    { Groups(0, 0, 0, 0, 0, 0, 0, 1),
      Groups(8193, 3512, 0, 0, 0, 0, 0, 1),
      Groups(65535, 65535, 65535, 65535, 65535, 65535, 65535, 65535) }

\* bits: u8; the values around the octet boundaries, the ends of the valid
\* range and values beyond it
BitsInputs ==
    {0, 1, 7, 8, 9, 15, 16, 17, 63, 64, 65, 119, 120, 121, 125, 126, 127,
     U128_BITS, 129, 200, U8_MAX}

\* masks given as 16 octets in network order: the octets before k are f1,
\* octet k is v, the octets after k are f2
MaskOctets(k, f1, v, f2) ==
    [i \in ByteIdx |-> IF i < k THEN f1 ELSE IF i = k THEN v ELSE f2]

MaskInputs ==
    { u8_array_to_u128(MaskOctets(k, f1, v, f2)) :
        k \in {0, 7, 15}, f1 \in {0, U8_MAX}, v \in {0, 1, 128, 160, 254, U8_MAX},
        f2 \in {0, U8_MAX} }

\* prefix lengths of the blocks a block is compared with
CmpBitsInputs == {0, 64, 128}

BitsInput(p, bits) == [kind |-> "bits", prefix |-> p, bits |-> bits, mask |-> {}]
MaskInput(p, mask) == [kind |-> "mask", prefix |-> p, bits |-> 0, mask |-> mask]

\* ------------------------------------------------------------------- state
VARIABLES
    overflow_checks,  \* the build checks arithmetic overflow (debug profile)
    input,            \* the caller's arguments of this run
    cidr,             \* the Result of the factory call
    iter,             \* the iterator obtained from cidr, if any
    ncalls,           \* next() calls made on iter
    crossings,        \* times iter's cursor wrapped from 2^128 - 1 to (0, true)
    ret               \* the last call: a record with one field, named after
                      \* the function called, holding its arguments and result

vars == <<overflow_checks, input, cidr, iter, ncalls, crossings, ret>>

\* the last call was to op
Did(op) == DOMAIN ret = {op}

Start ==
    /\ overflow_checks \in BOOLEAN
    /\ cidr = NoCidr
    /\ iter = NoIter
    /\ ncalls = 0
    /\ crossings = 0
    /\ ret = [start |-> TRUE]

\* ----------------------------------------------------------- pure functions
\* get_mask on the caller's bits (callers check bits <= 128 first)
GetMask ==
    /\ input.kind = "bits"
    /\ input.bits <= U128_BITS
    /\ ret' = [get_mask |-> [bits |-> input.bits, r |-> get_mask(input.bits)]]
    /\ UNCHANGED <<overflow_checks, input, cidr, iter, ncalls, crossings>>

\* mask_to_bits on the caller's mask, or on the mask get_mask just returned
MaskToBits ==
    /\ \E mask \in (IF input.kind = "mask" THEN {input.mask} ELSE {})
                   \cup (IF Did("get_mask") THEN {ret.get_mask.r} ELSE {}) :
           ret' = [mask_to_bits |-> [mask |-> mask, r |-> mask_to_bits(mask)]]
    /\ UNCHANGED <<overflow_checks, input, cidr, iter, ncalls, crossings>>

\* ---------------------------------------------------------------- factories
FromPrefixAndBits ==
    /\ input.kind = "bits"
    /\ LET prefix == get_u128(input.prefix)
           r == from_prefix_and_bits(prefix, input.bits)
       IN /\ cidr' = r
          /\ ret' = [from_prefix_and_bits |->
                        [prefix |-> prefix, bits |-> input.bits, r |-> r]]
    /\ UNCHANGED <<overflow_checks, input, iter, ncalls, crossings>>

FromPrefixAndMask ==
    /\ input.kind = "mask"
    /\ LET prefix == get_u128(input.prefix)
           r == from_prefix_and_mask(prefix, input.mask)
       IN /\ cidr' = r
          /\ ret' = [from_prefix_and_mask |->
                        [prefix |-> prefix, mask |-> input.mask, r |-> r]]
    /\ UNCHANGED <<overflow_checks, input, iter, ncalls, crossings>>

\* ---------------------------------------------------------------- accessors
GetBits ==
    /\ cidr.tag = "Ok"
    /\ ret' = [get_bits |-> get_bits(cidr)]
    /\ UNCHANGED <<overflow_checks, input, cidr, iter, ncalls, crossings>>

CidrGetMask ==
    /\ cidr.tag = "Ok"
    /\ ret' = [cidr_get_mask |-> cidr_get_mask(cidr)]
    /\ UNCHANGED <<overflow_checks, input, cidr, iter, ncalls, crossings>>

First ==
    /\ cidr.tag = "Ok"
    /\ ret' = [first |-> first(cidr)]
    /\ UNCHANGED <<overflow_checks, input, cidr, iter, ncalls, crossings>>

Last ==
    /\ cidr.tag = "Ok"
    /\ ret' = [last |-> last(cidr)]
    /\ UNCHANGED <<overflow_checks, input, cidr, iter, ncalls, crossings>>

Size ==
    /\ cidr.tag = "Ok"
    /\ ret' = [size |-> size(cidr, overflow_checks)]
    /\ UNCHANGED <<overflow_checks, input, cidr, iter, ncalls, crossings>>

\* the addresses contains is asked about: an address first() or last() just
\* returned, its neighbour below or above in u128 arithmetic, or an input
\* address
Probes ==
    {get_u128(p) : p \in AddrInputs}
    \cup (IF Did("first") THEN {ret.first, Pred(ret.first).v} ELSE {})
    \cup (IF Did("last") /\ ~ret.last.panic
          THEN {ret.last.v, Succ(ret.last.v).v} ELSE {})

Contains ==
    /\ cidr.tag = "Ok"
    /\ \E ipv6 \in Probes :
           ret' = [contains |-> [ipv6 |-> ipv6, r |-> contains(cidr, ipv6)]]
    /\ UNCHANGED <<overflow_checks, input, cidr, iter, ncalls, crossings>>

Cmp ==
    /\ cidr.tag = "Ok"
    /\ \E p \in AddrInputs, bits \in CmpBitsInputs :
           LET other == from_prefix_and_bits(get_u128(p), bits)
           IN ret' = [cmp |-> [other |-> other, r |-> cmp(cidr, other)]]
    /\ UNCHANGED <<overflow_checks, input, cidr, iter, ncalls, crossings>>

\* ----------------------------------------------------------------- iterator
IterAsU8Array ==
    /\ cidr.tag = "Ok"
    /\ LET r == iter_as_u8_array(cidr, overflow_checks)
       IN /\ iter' = r.v
          /\ ret' = [iter_as_u8_array |-> r]
    /\ ncalls' = 0
    /\ crossings' = 0
    /\ UNCHANGED <<overflow_checks, input, cidr>>

IterNext ==
    /\ iter.live
    /\ ncalls < MaxNextCalls
    /\ LET o == iter_next(iter, overflow_checks)
       IN /\ iter' = o.it
          /\ crossings' = crossings + (IF o.crossed THEN 1 ELSE 0)
          /\ ret' = [next |-> [n |-> ncalls + 1, r |-> o]]
    /\ ncalls' = ncalls + 1
    /\ UNCHANGED <<overflow_checks, input, cidr>>

\* last(mut self) consumes the iterator
IterLast ==
    /\ iter.live
    /\ LET o == iter_last(iter, overflow_checks)
       IN /\ iter' = [o.it EXCEPT !.live = FALSE]
          /\ crossings' = crossings + (IF o.crossed THEN 1 ELSE 0)
          /\ ret' = [iter_last |-> [n |-> ncalls, r |-> o]]
    /\ UNCHANGED <<overflow_checks, input, cidr, ncalls>>

\* ------------------------------------------------------- specifications
\* the mask functions on their own
InitMask ==
    /\ Start
    /\ input \in {BitsInput(Groups(0, 0, 0, 0, 0, 0, 0, 0), b) : b \in 0..U128_BITS}
                 \cup {MaskInput(Groups(0, 0, 0, 0, 0, 0, 0, 0), m) : m \in MaskInputs}

NextMask == GetMask \/ MaskToBits

SpecMask == InitMask /\ [][NextMask]_vars

\* a block: the factories and the accessors
Init ==
    /\ Start
    /\ input \in {BitsInput(p, b) : p \in AddrInputs, b \in BitsInputs}
                 \cup {MaskInput(p, m) : p \in AddrInputs, m \in MaskInputs}

Next ==
    \/ FromPrefixAndBits
    \/ FromPrefixAndMask
    \/ GetBits
    \/ CidrGetMask
    \/ First
    \/ Last
    \/ Size
    \/ Contains
    \/ Cmp

Spec == Init /\ [][Next]_vars

\* a block and its iterator
InitIter ==
    /\ Start
    /\ input \in {BitsInput(p, b) : p \in AddrInputs, b \in BitsInputs}

NextIter ==
    \/ FromPrefixAndBits
    \/ Size
    \/ IterAsU8Array
    \/ IterNext
    \/ IterLast

SpecIter == InitIter /\ [][NextIter]_vars

\* ------------------------------------------------------------ properties
TypeOK == overflow_checks \in BOOLEAN /\ ncalls \in 0..MaxNextCalls

\* the u128 bit that holds the d-th bit of an address in network order
\* (d = 0 is the most significant bit of octet 0)
DigitBit(d) == 8 * (d \div 8) + (7 - (d % 8))

\* in address bit order, a 0-bit is followed by a later 1-bit
HasZeroBeforeOne(m) ==
    \E j \in 1..(U128_BITS - 1) :
        /\ DigitBit(j) \in m
        /\ \E i \in 0..(j - 1) : DigitBit(i) \notin m

\* the prefix length a contiguous mask stands for
PrefixLen(m) == Cardinality(m)

\* C6: mask_to_bits is the exact inverse of get_mask on valid masks and
\* rejects everything else: mask_to_bits(get_mask(b)) = Some(b) for every b
\* in 0..128, and mask_to_bits(m) = None for every m that has, in address bit
\* order, a 0-bit followed by a later 1-bit.
C6_MaskRoundTrip ==
    Did("mask_to_bits") =>
        /\ (input.kind = "bits" => ret.mask_to_bits.r = Some(input.bits))
        /\ (HasZeroBeforeOne(ret.mask_to_bits.mask) <=> ret.mask_to_bits.r = None)
        /\ (ret.mask_to_bits.r.some =>
               /\ ret.mask_to_bits.r.v \in 0..U128_BITS
               /\ ret.mask_to_bits.mask =
                      {DigitBit(d) : d \in 0..(ret.mask_to_bits.r.v - 1)})

C6_Witness ==
    /\ Did("mask_to_bits")
    /\ input.kind = "bits"
    /\ input.bits = 61
    /\ ret.mask_to_bits.mask = {DigitBit(d) : d \in 0..60}
    /\ ret.mask_to_bits.r = Some(61)

\* C7: construction returns an error exactly when validation fails:
\* from_prefix_and_bits is Err(IncorrectBitsRange) iff bits > 128 and Ok
\* otherwise, from_prefix_and_mask is Err(IncorrectMask) iff the mask is not
\* a run of 1-bits followed by 0-bits and Ok otherwise.
C7_ErrorIffInvalid ==
    /\ Did("from_prefix_and_bits") =>
           LET c == ret.from_prefix_and_bits
           IN /\ c.r.tag \in {"Ok", "Err"}
              /\ (c.r.tag = "Err" <=> c.bits > 128)
              /\ (c.r.tag = "Err" => c.r.err = "IncorrectBitsRange")
    /\ Did("from_prefix_and_mask") =>
           LET c == ret.from_prefix_and_mask
           IN /\ c.r.tag \in {"Ok", "Err"}
              /\ (c.r.tag = "Err" <=> HasZeroBeforeOne(c.mask))
              /\ (c.r.tag = "Err" => c.r.err = "IncorrectMask")

C7_Witness ==
    /\ Did("from_prefix_and_bits")
    /\ ret.from_prefix_and_bits.bits = 128
    /\ ret.from_prefix_and_bits.prefix = MaxU128
    /\ ret.from_prefix_and_bits.r = Ok(MaxU128, MaxU128)

\* C8: every block a factory returns is well formed: its prefix is the
\* supplied address AND the mask, its mask is a contiguous prefix mask,
\* get_bits() yields a value in 0..128 without failing and the get_mask()
\* accessor equals the stored mask.
C8_WellFormed ==
    /\ cidr.tag = "Ok" =>
           /\ cidr.prefix = BitAnd(get_u128(input.prefix), cidr.mask)
           /\ BitAnd(cidr.prefix, cidr.mask) = cidr.prefix
           /\ ~HasZeroBeforeOne(cidr.mask)
    /\ Did("get_bits") =>
           /\ ~ret.get_bits.panic
           /\ ret.get_bits.v \in 0..128
           /\ ret.get_bits.v = PrefixLen(cidr.mask)
    /\ Did("cidr_get_mask") =>
           /\ ~ret.cidr_get_mask.panic
           /\ ret.cidr_get_mask.v = cidr.mask

C8_Witness ==
    /\ Did("cidr_get_mask")
    /\ input.kind = "mask"
    /\ get_u128(input.prefix) # cidr.prefix
    /\ cidr.mask = {DigitBit(d) : d \in 0..56}
    /\ ret.cidr_get_mask = Val(cidr.mask)

\* C9: contains(first()) and contains(last()) are true; for a prefix length
\* below 128, contains(first() - 1) is false when first() > 0 and
\* contains(last() + 1) is false when last() is not the maximum u128.
C9_ContainsEnds ==
    Did("contains") =>
        LET x == ret.contains.ipv6
            found == ret.contains.r
        IN /\ ~found.panic
           /\ ~last(cidr).panic
           /\ (x = first(cidr) => found.v)
           /\ (x = last(cidr).v => found.v)
           /\ (/\ cidr.mask # MaxU128
               /\ first(cidr) # ZeroU128
               /\ x = Pred(first(cidr)).v
               => ~found.v)
           /\ (/\ cidr.mask # MaxU128
               /\ last(cidr).v # MaxU128
               /\ x = Succ(last(cidr).v).v
               => ~found.v)

C9_Witness ==
    /\ Did("contains")
    /\ PrefixLen(cidr.mask) = 9
    /\ last(cidr).v # MaxU128
    /\ ret.contains.ipv6 = Succ(last(cidr).v).v
    /\ ret.contains.r = Val(FALSE)

\* C1: size() is (0, false) iff the prefix length is 128, (0, true) iff it is
\* 0, and (2^(128-p), false) for every other prefix length p; the
\* computation for prefix length 0 never overflows.
C1_SizeByPrefixLength ==
    Did("size") =>
        /\ ~ret.size.panic
        /\ (ret.size.v = Pair(ZeroU128, FALSE) <=> PrefixLen(cidr.mask) = 128)
        /\ (ret.size.v = Pair(ZeroU128, TRUE) <=> PrefixLen(cidr.mask) = 0)
        /\ (PrefixLen(cidr.mask) \in 1..127 =>
               ret.size.v = Pair({128 - PrefixLen(cidr.mask)}, FALSE))

\* the order the ordering is specified to be: by the 16-bit groups, most
\* significant first, then by ascending prefix length
ExpectedCmp(a, b) ==
    LET ga == u128_to_u16_array(a.prefix)
        gb == u128_to_u16_array(b.prefix)
        D == {i \in GroupIdx : ga[i] # gb[i]}
    IN IF D # {}
       THEN (IF ga[MinOf(D)] < gb[MinOf(D)] THEN "Less" ELSE "Greater")
       ELSE IF PrefixLen(a.mask) < PrefixLen(b.mask) THEN "Less"
       ELSE IF PrefixLen(a.mask) > PrefixLen(b.mask) THEN "Greater"
       ELSE "Equal"

Reverse(o) == CASE o = "Less" -> "Greater" [] o = "Greater" -> "Less" [] OTHER -> o

\* C4: cmp is a strict total order defined for every pair of blocks: it
\* always returns a result, orders by the groups of the prefix address and
\* then by ascending prefix length, is Equal iff the blocks are equal, and
\* cmp(a, b) is the reverse of cmp(b, a).
C4_StrictTotalOrder ==
    Did("cmp") =>
        /\ ret.cmp.r \in {"Less", "Equal", "Greater"}
        /\ ret.cmp.r = ExpectedCmp(cidr, ret.cmp.other)
        /\ (ret.cmp.r = "Equal" <=> cidr = ret.cmp.other)
        /\ ret.cmp.r = Reverse(cmp(ret.cmp.other, cidr))

\* the address as a number (octet 0 most significant) and back to octets
Numeric(x) == u8_array_to_u128(ReverseBytes(u128_to_u8_array(x)))
OctetsOf(v) == ReverseBytes(u128_to_u8_array(v))

RECURSIVE AddK(_, _)
AddK(v, k) == IF k = 0 THEN v ELSE AddK(Succ(v).v, k - 1)

\* n <= 2^(128 - p), the address count of a block of prefix length p
WithinCount(p, n) == (128 - p >= 30) \/ n <= 2 ^ (128 - p)

\* C2: on a fresh iterator the n-th next() returns first() + (n - 1) in
\* octet form for n up to the block's address count 2^(128 - prefix length),
\* and None after that.
C2_IterEnumerates ==
    /\ Did("iter_as_u8_array") => ~ret.iter_as_u8_array.panic
    /\ Did("next") =>
           IF WithinCount(PrefixLen(cidr.mask), ret.next.n)
           THEN /\ ret.next.r.tag = "Some"
                /\ ret.next.r.bytes =
                       OctetsOf(AddK(Numeric(first(cidr)), ret.next.n - 1))
           ELSE ret.next.r.tag = "None"

\* C3: for a prefix length in 120..128 the direct-jump last() of a fresh
\* iterator returns the octet form of the block's last address, which is
\* also the final Some(..) of driving next() to exhaustion.
C3_LastJump ==
    PrefixLen(cidr.mask) >= 120 =>
        /\ (Did("iter_last") /\ ncalls = 0) =>
               /\ ret.iter_last.r.tag = "Some"
               /\ ret.iter_last.r.bytes = last_as_u8_array(cidr).v
        /\ (Did("next") /\ ret.next.r.tag = "Some" /\ iter.next = iter.size) =>
               ret.next.r.bytes = last_as_u8_array(cidr).v

AllOnesOctets == [i \in ByteIdx |-> U8_MAX]

\* C5: from_prefix_and_bits(a, 0) has an all-zero prefix and mask, its
\* size() is (0, true), and the direct-jump last() of a fresh iterator over
\* it returns the all-one address.
C5_SlashZero ==
    (input.kind = "bits" /\ input.bits = 0) =>
        /\ cidr.tag = "Ok" => (cidr.prefix = ZeroU128 /\ cidr.mask = ZeroU128)
        /\ Did("size") => ret.size = Val(Pair(ZeroU128, TRUE))
        /\ Did("iter_as_u8_array") =>
               /\ ~ret.iter_as_u8_array.panic
               /\ ret.iter_as_u8_array.v.size = Pair(ZeroU128, TRUE)
        /\ Did("iter_last") =>
               /\ ret.iter_last.r.tag = "Some"
               /\ ret.iter_last.r.bytes = AllOnesOctets

\* C10: the addition origin + cursor.value made by next() never overflows
\* 128 bits, and the cursor crosses the 2^128 boundary at most once and only
\* for the /0 block.
C10_NoAddOverflow ==
    /\ Did("next") =>
           (ret.next.r.tag # "Panic" /\ ~ret.next.r.add_overflow)
    /\ Did("iter_last") =>
           (ret.iter_last.r.tag # "Panic" /\ ~ret.iter_last.r.add_overflow)
    /\ crossings <= 1
    /\ crossings > 0 => PrefixLen(cidr.mask) = 0

====
